---- MODULE Spec2Model ----
(***************************************************************************)
(* A model of the TopGearLeaderboard component                             *)
(* (src/components/TopGearLeaderboard.tsx): its React state, the fetch     *)
(* cycles started by the mount effect, the 10-minute timer and the         *)
(* buttons, and the pure pipeline raw -> laps -> lapsThisWeek -> combos    *)
(* that the selection effect reads.                                        *)
(*                                                                         *)
(* Instants are milliseconds (Date.prototype.getTime); the local time zone *)
(* is given below. Lap times are counted in units of 10^-LapUnitDigits s.  *)
(* Spec is the component with its fetch cycles and timers in every order;  *)
(* TimedSpec is the scheduler alone, against the wall clock.               *)
(***************************************************************************)
EXTENDS Integers, Sequences, FiniteSets, TLC

VARIABLES
  raw,            \* useState raw            (line 34)
  loading,        \* useState loading        (line 35)
  error,          \* useState error          (line 36)
  selectedKey,    \* useState selectedKey    (line 37)
  lastFetchedAt,  \* useState lastFetchedAt  (line 38); NoDate is null
  usedDemo,       \* useState usedDemo       (line 39)
  week,           \* useMemo(() => weekBounds(new Date()), [])  (line 216)
  proxyUrl,       \* the prop the mount effect depends on
  mounted,        \* the component is mounted (React drops updates otherwise)
  now,            \* the wall clock
  gen,            \* the number of the current run of the mount effect
  timeoutId,      \* timeoutId of each run of the mount effect (0 is null)
  timers,         \* the browser's pending timers
  nextTimer,      \* the id the next setTimeout returns
  inflight,       \* fetchData calls suspended at await fetch(...)
  nextCycle,      \* the number of the next fetchData call
  rawCycle,       \* history: the fetchData call that last wrote raw (0: none)
  last,           \* history: the last step, when it was a landing
  phase,          \* timed scheduler: "idle", "waiting" or "fetching"
  delay,          \* timed scheduler: the delay schedule() computed
  armedAt         \* timed scheduler: the instant schedule() ran

vars == <<raw, loading, error, selectedKey, lastFetchedAt, usedDemo, week,
          proxyUrl, mounted, now, gen, timeoutId, timers, nextTimer,
          inflight, nextCycle, rawCycle, last, phase, delay, armedAt>>

uiVars == <<raw, loading, error, selectedKey, lastFetchedAt, usedDemo>>
timedVars == <<phase, delay, armedAt>>

----------------------------------------------------------------------------
(* Bounds of the model *)

MaxGen == 2       \* runs of the mount effect (mount + proxyUrl changes)
MaxCycles == 3    \* fetchData calls
MaxMinute == 130  \* minutes covered by the timed scheduler model
MaxWeeks == 1     \* weeks the clock runs on after the mount
MaxLen == 3       \* entries of a JSON array of the pipeline model

(* Units of the Date arithmetic *)
MsPerSecond == 1000
MsPerMinute == 60 * MsPerSecond
MsPerHour == 60 * MsPerMinute
MsPerDay == 24 * MsPerHour
DaysPerWeek == 7

----------------------------------------------------------------------------
(* JavaScript values of the raw records *)

\* a string is held as its text (the names) or as its characters (lapTime)
Undefined == [t |-> "undefined", s |-> <<>>]
UndefinedName == [t |-> "undefined", s |-> ""]
Str(chars) == [t |-> "string", s |-> chars]
\* an entry of the JSON array that is null, not an object
Null == [t |-> "null"]
\* Date.prototype.toISOString: the string that new Date(...) parses back
toISOString(ms) == Str(<<"iso", ms>>)

NaN == [fin |-> FALSE, v |-> 0]
Num(n) == [fin |-> TRUE, v |-> n]

Digits == {"0", "1", "2", "3", "4", "5", "6", "7", "8", "9"}
DigitVal(c) ==
  CASE c = "0" -> 0 [] c = "1" -> 1 [] c = "2" -> 2 [] c = "3" -> 3
    [] c = "4" -> 4 [] c = "5" -> 5 [] c = "6" -> 6 [] c = "7" -> 7
    [] c = "8" -> 8 [] c = "9" -> 9

\* the length of the longest prefix of s[i..] made of digits
RECURSIVE DigitRun(_, _)
DigitRun(s, i) ==
  IF i <= Len(s) /\ s[i] \in Digits THEN 1 + DigitRun(s, i + 1) ELSE 0

RECURSIVE DigitsValue(_, _, _)
DigitsValue(s, i, n) ==
  IF n = 0 THEN 0 ELSE DigitsValue(s, i, n - 1) * 10 + DigitVal(s[i + n - 1])

RECURSIVE Pow10(_)
Pow10(k) == IF k = 0 THEN 1 ELSE 10 * Pow10(k - 1)

LapUnitDigits == 4
\* parseFloat: optional sign, digits, optional fraction; the longest numeric
\* prefix counts and the rest of the string is ignored. The value is in
\* units of 10^-LapUnitDigits (further decimals are cut).
parseFloat(v) ==
  IF v.t # "string" THEN NaN
  ELSE
    LET s == v.s
        neg == Len(s) >= 1 /\ s[1] = "-"
        i0 == IF neg THEN 2 ELSE 1
        nInt == DigitRun(s, i0)
        hasDot == i0 + nInt <= Len(s) /\ s[i0 + nInt] = "."
        nFrac == IF hasDot THEN DigitRun(s, i0 + nInt + 1) ELSE 0
        kept == IF nFrac > LapUnitDigits THEN LapUnitDigits ELSE nFrac
        mag == DigitsValue(s, i0, nInt) * Pow10(LapUnitDigits)
               + DigitsValue(s, i0 + nInt + 1, kept) * Pow10(LapUnitDigits - kept)
    IN IF nInt = 0 /\ nFrac = 0 THEN NaN
       ELSE Num(IF neg THEN 0 - mag ELSE mag)

\* lines 164-167
parseLapTime(str) ==
  LET n == parseFloat(str)
  IN IF n.fin THEN n ELSE NaN

\* new Date(value).getTime(): NaN for anything but a date string
parseDate(v) ==
  IF v.t = "string" /\ Len(v.s) = 2 /\ v.s[1] = "iso" THEN Num(v.s[2]) ELSE NaN

\* x ?? "" on a name field
orEmpty(v) == IF v.t = "undefined" THEN "" ELSE v.s

----------------------------------------------------------------------------
(* Date in local time. The zone is one hour ahead of UTC until FallBack,   *)
(* the instant its clocks go back from 02:00 to 01:00 on the Sunday that   *)
(* starts week 1, and on UTC from then on (Europe/Dublin is such a zone).  *)
(* Local instant 0 is the Sunday 00:00 that starts week 0.                 *)

FallBack == DaysPerWeek * MsPerDay + MsPerHour
\* LocalTime(t) of ECMAScript
LocalTime(t) == t + (IF t < FallBack THEN MsPerHour ELSE 0)
\* UTC(t) of ECMAScript: a local time that occurs twice is the earlier instant
UTC(l) == IF l - MsPerHour < FallBack THEN l - MsPerHour ELSE l

getDay(t) == (LocalTime(t) \div MsPerDay) % DaysPerWeek
getMinutes(t) == (LocalTime(t) \div MsPerMinute) % 60
getSeconds(t) == (LocalTime(t) \div MsPerSecond) % 60
getMilliseconds(t) == LocalTime(t) % MsPerSecond
\* setHours(0, 0, 0, 0)
setHoursZero(t) == UTC(LocalTime(t) - (LocalTime(t) % MsPerDay))
\* days of 24 hours instead of days of the calendar
addDateElapsed(t, days) == t + days * MsPerDay
\* setDate(getDate() + days)
addDate(t, days) == UTC(LocalTime(t) + days * MsPerDay)
\* setSeconds(0, 0)
setSecondsZero(t) == UTC(LocalTime(t) - (LocalTime(t) % MsPerMinute))
\* setMinutes(m): m beyond 59 carries into the hour
setMinutes(t, m) == UTC(LocalTime(t) + (m - getMinutes(t)) * MsPerMinute)

(* Week window, lines 168-177 *)
weekBounds(date) ==
  LET day == getDay(date)
      start == addDate(setHoursZero(date), 0 - day)
  IN [start |-> start, endExclusive |-> addDate(start, 7)]

----------------------------------------------------------------------------
(* Normalize, filter to the week, group and order: lines 196-236 *)

normalizeOne(r) ==
  [fullName |-> orEmpty(r.fullName),
   lapTime |-> parseLapTime(r.lapTime),
   carName |-> orEmpty(r.carName),
   trackName |-> orEmpty(r.trackName),
   startTime |-> parseDate(r.startTime)]

\* r.fullName of line 199 is a TypeError when r is null
readThrows(r) == r = Null
\* the map callback of lines 198-212 throws on some entry of rawData
lapsThrows(rawData) == \E i \in 1..Len(rawData) : readThrows(rawData[i])

\* a filter that does not look at carName
keepLapAnyCar(l) == l.lapTime.fin /\ l.trackName # "" /\ l.startTime.fin
keepLap(l) ==
  l.lapTime.fin /\ l.carName # "" /\ l.trackName # "" /\ l.startTime.fin

laps(rawData) ==
  SelectSeq([i \in 1..Len(rawData) |-> normalizeOne(rawData[i])], keepLap)

\* no filter by the week
lapsAnyWeek(ls, w) == ls
lapsThisWeek(ls, w) ==
  LET inWeek(l) == l.startTime.v >= w.start /\ l.startTime.v < w.endExclusive
  IN SelectSeq(ls, inWeek)

comboKey(l) == l.carName \o "@@" \o l.trackName

\* the Map of line 221 after the loop over the first n laps, as the sequence
\* of its values in insertion order
RECURSIVE groupLaps(_, _)
groupLaps(ls, n) ==
  IF n = 0 THEN <<>>
  ELSE
    LET map == groupLaps(ls, n - 1)
        lap == ls[n]
        key == comboKey(lap)
        has == \E i \in 1..Len(map) : map[i].key = key
        map2 == IF has THEN map
                ELSE Append(map, [key |-> key, carName |-> lap.carName,
                                  trackName |-> lap.trackName, laps |-> <<>>])
    IN [i \in 1..Len(map2) |->
          IF map2[i].key = key
          THEN [map2[i] EXCEPT !.laps = Append(@, lap)]
          ELSE map2[i]]

RECURSIVE maxStart(_, _)
maxStart(ls, n) ==
  IF n = 1 THEN ls[1].startTime.v
  ELSE LET m == maxStart(ls, n - 1)
       IN IF ls[n].startTime.v > m THEN ls[n].startTime.v ELSE m

\* a comparator without the tie-break
compareCombosByCount(a, b) == Len(b.laps) - Len(a.laps)
\* the comparator of lines 228-234
compareCombos(a, b) ==
  LET c == Len(b.laps) - Len(a.laps)
  IN IF c # 0 THEN c
     ELSE maxStart(b.laps, Len(b.laps)) - maxStart(a.laps, Len(a.laps))

\* Array.prototype.sort is stable: x goes after every element it does not
\* strictly precede
RECURSIVE insertCombo(_, _)
insertCombo(sorted, x) ==
  IF sorted = <<>> THEN <<x>>
  ELSE IF compareCombos(x, Head(sorted)) < 0 THEN <<x>> \o sorted
  ELSE <<Head(sorted)>> \o insertCombo(Tail(sorted), x)

RECURSIVE sortCombos(_, _)
sortCombos(list, n) ==
  IF n = 0 THEN <<>> ELSE insertCombo(sortCombos(list, n - 1), list[n])

combos(rawData, w) ==
  LET ltw == lapsThisWeek(laps(rawData), w)
      list == groupLaps(ltw, Len(ltw))
  IN sortCombos(list, Len(list))

\* an unstable sort: x goes before the laps that are as fast
RECURSIVE insertLapBeforeEqual(_, _)
insertLapBeforeEqual(sorted, x) ==
  IF sorted = <<>> THEN <<x>>
  ELSE IF x.lapTime.v - Head(sorted).lapTime.v <= 0 THEN <<x>> \o sorted
  ELSE <<Head(sorted)>> \o insertLapBeforeEqual(Tail(sorted), x)

\* the comparator of line 247 under the stable Array.prototype.sort: x goes
\* after every lap that is not slower
RECURSIVE insertLap(_, _)
insertLap(sorted, x) ==
  IF sorted = <<>> THEN <<x>>
  ELSE IF x.lapTime.v - Head(sorted).lapTime.v < 0 THEN <<x>> \o sorted
  ELSE <<Head(sorted)>> \o insertLap(Tail(sorted), x)

RECURSIVE sortLaps(_, _)
sortLaps(ls, n) ==
  IF n = 0 THEN <<>> ELSE insertLap(sortLaps(ls, n - 1), ls[n])

\* lines 247-249 on the laps of the selected combo
rowsOf(comboLaps) ==
  LET sorted == sortLaps(comboLaps, Len(comboLaps))
      leader == IF Len(sorted) > 0 THEN sorted[1].lapTime.v ELSE 0
  IN [i \in 1..Len(sorted) |->
        [lap |-> sorted[i], pos |-> i, delta |-> sorted[i].lapTime.v - leader]]

comboKeys(cs) == {cs[i].key : i \in 1..Len(cs)}

----------------------------------------------------------------------------
(* What the feed can answer, and the demo records of lines 69-111 *)

rawRecord(fullName, lapTime, carName, trackName, startTime) ==
  [fullName |-> fullName, lapTime |-> lapTime, carName |-> carName,
   trackName |-> trackName, startTime |-> startTime]

demo(t) ==
  << rawRecord(Str("Aron Day"), Str(<<"5", "8", ".", "8", "1", "2", "5">>),
               Str("Toyota GR86"), Str("Lime Rock Park"), toISOString(t)),
     rawRecord(Str("Jane Driver"), Str(<<"5", "9", ".", "1", "0", "3">>),
               Str("Toyota GR86"), Str("Lime Rock Park"),
               toISOString(t - 1000 * 60 * 30)),
     rawRecord(Str("Max Speedman"), Str(<<"6", "0", ".", "2", "4", "5">>),
               Str("Toyota GR86"), Str("Lime Rock Park"),
               toISOString(t - 1000 * 60 * 58)) >>

\* the component is mounted on the Wednesday of week 0 at 12:00 local time
StartInstant == UTC(3 * MsPerDay + 12 * MsPerHour)

Mon == MsPerDay + 9 * MsPerHour
Tue == 2 * MsPerDay + 9 * MsPerHour
LastWeek == 0 - 2 * MsPerDay

LapAX(name, time, at) ==
  rawRecord(Str(name), Str(time), Str("CarA"), Str("TrackX"), toISOString(at))
LapBY(name, time, at) ==
  rawRecord(Str(name), Str(time), Str("CarB"), Str("TrackY"), toISOString(at))

\* JSON arrays the endpoint may answer with: CarA@TrackX leading; CarB@TrackY
\* leading; CarA@TrackX gone (with a record without carName and a lap of the
\* week before); nothing of this week
Feeds ==
  { << LapAX("Ann", <<"5", "8", ".", "5">>, Mon), LapAX("Bob", <<"5", "9">>, Tue),
       LapBY("Cat", <<"6", "1">>, Tue) >>,
    << LapAX("Ann", <<"5", "8", ".", "5">>, Mon), LapBY("Cat", <<"6", "1">>, Tue),
       LapBY("Dan", <<"6", "0", ".", "2", "5">>, Tue + MsPerHour) >>,
    << LapBY("Cat", <<"6", "1">>, Tue),
       rawRecord(Str("Eve"), Str(<<"5", "7">>), UndefinedName, Str("TrackX"),
                 toISOString(Tue)),
       LapAX("Ann", <<"5", "8", ".", "5">>, LastWeek) >>,
    << LapAX("Bob", <<"x", "5", "9">>, Tue), LapAX("Ann", <<"5", "8">>, LastWeek) >> }

\* rawData is the demo array of some instant
isDemo(rawData) ==
  /\ Len(rawData) > 0
  /\ parseDate(rawData[1].startTime).fin
  /\ rawData = demo(parseDate(rawData[1].startTime).v)

NoDate == 0 - 1

\* useMemo of lines 196-236: the combos of the arrays raw can hold, computed
\* once for the week of the mount; any other argument is computed afresh
mountWeek == weekBounds(StartInstant)
comboTable ==
  [rawData \in Feeds \cup {<<>>}
                    \cup {demo(StartInstant + k * DaysPerWeek * MsPerDay) : k \in 0..MaxWeeks}
     |-> combos(rawData, mountWeek)]
memoCombos(rawData, w) ==
  IF w = mountWeek /\ rawData \in DOMAIN comboTable
  THEN comboTable[rawData]
  ELSE combos(rawData, w)

\* what a failed request leaves in e.message (lines 56-62): the message of
\* the rejection of fetch (which may be empty), of line 60 and of line 62
FailureMessages ==
  {"Failed to fetch", "", "Request failed: 500", "Unexpected response shape"}

\* the message with no default
errorMessageRaw(message) == message
\* line 66: e?.message || "Failed to load data"
errorMessage(message) == IF message = "" THEN "Failed to load data" ELSE message

----------------------------------------------------------------------------
(* The component *)

\* line 51: an empty proxyUrl stands for API_URL
ProxyUrls == {"/api/laps", ""}

\* a fetchData call between await fetch(...) and its continuation; torn
\* records that the mount effect was torn down while it was in flight
cycle(id, allowDemoFallback, kind, g) ==
  [id |-> id, allowDemoFallback |-> allowDemoFallback, kind |-> kind,
   gen |-> g, torn |-> FALSE]

\* the allowDemoFallback argument at each call site of fetchData
startupAllowDemoFallback == TRUE       \* line 147
\* the scheduled run with the fallback of the startup run
scheduledWithDemoFallback == TRUE
scheduledAllowDemoFallback == FALSE    \* line 141
refreshAllowDemoFallback == FALSE      \* line 284
tryAgainAllowDemoFallback == FALSE     \* line 358
loadDemoAllowDemoFallback == TRUE      \* line 359

\* an effect that goes back to the first combo on every new result
selectionEffectResetTop(cs, sel) == IF Len(cs) # 0 THEN cs[1].key ELSE ""

\* the effect of lines 238-241, run until selectedKey is stable
selectionEffect(cs, sel) ==
  IF Len(cs) # 0 /\ sel = "" THEN cs[1].key
  ELSE IF Len(cs) = 0 THEN "" ELSE sel

currentCombos == memoCombos(raw, week)
\* line 243
selectedCombo == {c \in {currentCombos[i] : i \in 1..Len(currentCombos)} : c.key = selectedKey}

\* lines 245-250
rows ==
  LET found == selectedCombo
  IN IF found = {} THEN <<>>
     ELSE rowsOf((CHOOSE c \in found : TRUE).laps)

topKey(cs) == IF Len(cs) = 0 THEN "" ELSE cs[1].key

\* history: a step that is no landing of a fetchData call
otherStep == [op |-> "other", kind |-> "", ok |-> TRUE, wrote |-> FALSE, top |-> ""]
\* history: the landing of call c: whether the request succeeded, whether
\* the landing wrote raw, and the key of the first combo before it
landing(c, ok) ==
  [op |-> "land", kind |-> c.kind, ok |-> ok,
   wrote |-> mounted /\ (ok \/ c.allowDemoFallback),
   top |-> topKey(currentCombos)]

\* history: the landing of call c whose array made the render throw
thrownLanding(c) == [landing(c, TRUE) EXCEPT !.wrote = FALSE]

tearDown(fs) == {[c EXCEPT !.torn = TRUE] : c \in fs}

\* lines 150-152: if (timeoutId) clearTimeout(timeoutId)
cleanup(g, ts) ==
  IF timeoutId[g] # 0 THEN {t \in ts : t.id # timeoutId[g]} ELSE ts

\* lines 138-144: schedule() of effect run g, on the pending timers ts
schedule(g, ts) ==
  /\ timers' = ts \cup {[id |-> nextTimer, gen |-> g]}
  /\ timeoutId' = [timeoutId EXCEPT ![g] = nextTimer]
  /\ nextTimer' = nextTimer + 1

\* lines 50-56: fetchData up to await fetch(...); fs are the calls in flight
fetchDataStart(fs, allowDemoFallback, kind, g) ==
  /\ nextCycle <= MaxCycles
  /\ inflight' = fs \cup {cycle(nextCycle, allowDemoFallback, kind, g)}
  /\ nextCycle' = nextCycle + 1
  /\ IF mounted
     THEN loading' = TRUE /\ error' = "" /\ usedDemo' = FALSE
     ELSE UNCHANGED <<loading, error, usedDemo>>
  /\ UNCHANGED <<raw, lastFetchedAt, selectedKey, rawCycle>>

InitComponent ==
  /\ raw = <<>>
  /\ loading = TRUE
  /\ error = ""
  /\ selectedKey = ""
  /\ lastFetchedAt = NoDate
  /\ usedDemo = FALSE
  /\ week = mountWeek
  /\ proxyUrl = "/api/laps"
  /\ mounted = TRUE
  /\ gen = 1
  /\ timeoutId = [g \in 1..MaxGen |-> IF g = 1 THEN 1 ELSE 0]
  /\ timers = {[id |-> 1, gen |-> 1]}
  /\ nextTimer = 2
  /\ inflight = {cycle(1, startupAllowDemoFallback, "startup", 1)}
  /\ nextCycle = 2
  /\ rawCycle = 0
  /\ last = otherStep

Init ==
  /\ InitComponent
  /\ now = StartInstant
  /\ phase = "idle"
  /\ delay = 0
  /\ armedAt = 0

\* the callback of line 140 starts: the timer is gone, fetchData is called
TimerFire(t) ==
  /\ t \in timers
  /\ fetchDataStart(inflight, scheduledAllowDemoFallback, "scheduled", t.gen)
  /\ timers' = timers \ {t}
  /\ last' = otherStep
  /\ UNCHANGED <<week, proxyUrl, mounted, now, gen, timeoutId, nextTimer>>
  /\ UNCHANGED timedVars

\* a callback that stops after fetchData
afterFetchNoSchedule(c) == UNCHANGED <<timers, timeoutId, nextTimer>>
\* line 142: the callback of a scheduled run goes on with schedule()
afterFetch(c) ==
  IF c.kind = "scheduled" THEN schedule(c.gen, timers)
  ELSE UNCHANGED <<timers, timeoutId, nextTimer>>

\* line 142 and lines 150-152 when the render after fetchData throws: the
\* callback of a scheduled run goes on with schedule() before React renders;
\* the render throws, React unmounts the component and the cleanup of the
\* current run of the effect clears the timer its timeoutId holds
afterFetchThrown(c) ==
  LET sched == c.kind = "scheduled"
      ts == IF sched THEN timers \cup {[id |-> nextTimer, gen |-> c.gen]} ELSE timers
      ids == IF sched THEN [timeoutId EXCEPT ![c.gen] = nextTimer] ELSE timeoutId
  IN /\ timers' = IF ids[gen] # 0 THEN {t \in ts : t.id # ids[gen]} ELSE ts
     /\ timeoutId' = ids
     /\ nextTimer' = IF sched THEN nextTimer + 1 ELSE nextTimer

\* lines 60-64 and 116-118: the request succeeded with a JSON array. When
\* the array makes the next render throw (laps, lines 196-214) the updates
\* are never committed and the component is unmounted.
FetchOk(c, json) ==
  /\ c \in inflight
  /\ IF mounted /\ ~lapsThrows(json)
     THEN /\ raw' = json
          /\ lastFetchedAt' = now
          /\ loading' = FALSE
          /\ rawCycle' = c.id
          /\ selectedKey' = selectionEffect(memoCombos(json, week), selectedKey)
          /\ UNCHANGED <<error, usedDemo>>
     ELSE UNCHANGED <<uiVars, rawCycle>>
  /\ IF mounted /\ lapsThrows(json)
     THEN /\ mounted' = FALSE
          /\ inflight' = tearDown(inflight \ {c})
          /\ afterFetchThrown(c)
          /\ last' = thrownLanding(c)
     ELSE /\ mounted' = mounted
          /\ inflight' = inflight \ {c}
          /\ afterFetch(c)
          /\ last' = landing(c, TRUE)
  /\ UNCHANGED <<week, proxyUrl, now, gen, nextCycle>>
  /\ UNCHANGED timedVars

\* lines 65-118: the request failed (fetch rejected, !res.ok, not an array)
FetchFail(c, message) ==
  /\ c \in inflight
  /\ inflight' = inflight \ {c}
  /\ IF mounted
     THEN /\ error' = errorMessage(message)
          /\ loading' = FALSE
          /\ IF c.allowDemoFallback
             THEN /\ raw' = demo(now)
                  /\ usedDemo' = TRUE
                  /\ lastFetchedAt' = now
                  /\ rawCycle' = c.id
                  /\ selectedKey' = selectionEffect(memoCombos(demo(now), week), selectedKey)
             ELSE UNCHANGED <<raw, usedDemo, lastFetchedAt, rawCycle, selectedKey>>
     ELSE UNCHANGED <<uiVars, rawCycle>>
  /\ afterFetch(c)
  /\ last' = landing(c, FALSE)
  /\ UNCHANGED <<week, proxyUrl, mounted, now, gen, nextCycle>>
  /\ UNCHANGED timedVars

\* lines 121-153 on a new proxyUrl: the cleanup of the old run of the effect,
\* then the effect again (fetchData with the demo fallback, schedule())
ProxyUrlChange(url) ==
  /\ mounted
  /\ url # proxyUrl
  /\ gen < MaxGen
  /\ proxyUrl' = url
  /\ gen' = gen + 1
  /\ fetchDataStart(tearDown(inflight), startupAllowDemoFallback, "startup", gen + 1)
  /\ schedule(gen + 1, cleanup(gen, timers))
  /\ last' = otherStep
  /\ UNCHANGED <<week, mounted, now>>
  /\ UNCHANGED timedVars

\* lines 150-152 when the component goes away
Unmount ==
  /\ mounted
  /\ mounted' = FALSE
  /\ timers' = cleanup(gen, timers)
  /\ inflight' = tearDown(inflight)
  /\ last' = otherStep
  /\ UNCHANGED <<uiVars, week, proxyUrl, now, gen, timeoutId, nextTimer,
                 nextCycle, rawCycle>>
  /\ UNCHANGED timedVars

\* lines 283-290: the Refresh button, disabled while loading
Refresh ==
  /\ mounted
  /\ ~loading
  /\ fetchDataStart(inflight, refreshAllowDemoFallback, "refresh", 0)
  /\ last' = otherStep
  /\ UNCHANGED <<week, proxyUrl, mounted, now, gen, timeoutId, timers, nextTimer>>
  /\ UNCHANGED timedVars

\* line 358: Try again, shown with the error
TryAgain ==
  /\ mounted
  /\ error # ""
  /\ fetchDataStart(inflight, tryAgainAllowDemoFallback, "tryAgain", 0)
  /\ last' = otherStep
  /\ UNCHANGED <<week, proxyUrl, mounted, now, gen, timeoutId, timers, nextTimer>>
  /\ UNCHANGED timedVars

\* line 359: Load demo data, shown with the error
LoadDemo ==
  /\ mounted
  /\ error # ""
  /\ fetchDataStart(inflight, loadDemoAllowDemoFallback, "loadDemo", 0)
  /\ last' = otherStep
  /\ UNCHANGED <<week, proxyUrl, mounted, now, gen, timeoutId, timers, nextTimer>>
  /\ UNCHANGED timedVars

\* line 316: the user picks an option of the combo select
SelectCombo(key) ==
  /\ mounted
  /\ key \in comboKeys(currentCombos)
  /\ key # selectedKey
  /\ selectedKey' = selectionEffect(currentCombos, key)
  /\ last' = otherStep
  /\ UNCHANGED <<raw, loading, error, lastFetchedAt, usedDemo, week, proxyUrl,
                 mounted, now, gen, timeoutId, timers, nextTimer, inflight,
                 nextCycle, rawCycle>>
  /\ UNCHANGED timedVars

Next ==
  \/ \E t \in timers : TimerFire(t)
  \/ \E c \in inflight : \E json \in Feeds : FetchOk(c, json)
  \/ \E c \in inflight : \E message \in FailureMessages : FetchFail(c, message)
  \/ \E url \in ProxyUrls : ProxyUrlChange(url)
  \/ Unmount
  \/ Refresh
  \/ TryAgain
  \/ LoadDemo
  \/ \E key \in comboKeys(currentCombos) : SelectCombo(key)

Spec == Init /\ [][Next]_vars

\* the browser runs the callback of a pending timer, and every request is
\* answered or fails
TimerFires == \E t \in timers : TimerFire(t)
FetchSettles ==
  \E c \in inflight :
    \/ \E json \in Feeds : FetchOk(c, json)
    \/ \E message \in FailureMessages : FetchFail(c, message)

\* the scheduler with its starts and stops and the Refresh button, under a
\* browser that runs due callbacks and a network that settles every request
FairNext ==
  \/ TimerFires
  \/ FetchSettles
  \/ \E url \in ProxyUrls : ProxyUrlChange(url)
  \/ Unmount
  \/ Refresh

FairSpec ==
  Init /\ [][FairNext]_vars /\ WF_vars(TimerFires) /\ WF_vars(FetchSettles)

----------------------------------------------------------------------------
(* The component while the weeks go by *)

\* a week passes; nothing re-renders, and the useMemo of line 216 has no
\* dependencies, so week stays the window of the mount
Tick ==
  /\ now < StartInstant + MaxWeeks * DaysPerWeek * MsPerDay
  /\ now' = now + DaysPerWeek * MsPerDay
  /\ last' = otherStep
  /\ UNCHANGED <<uiVars, week, proxyUrl, mounted, gen, timeoutId, timers,
                 nextTimer, inflight, nextCycle, rawCycle>>
  /\ UNCHANGED timedVars

ClockNext ==
  \/ Next
  \/ Tick

ClockSpec == Init /\ [][ClockNext]_vars

----------------------------------------------------------------------------
(* The pipeline raw -> laps -> lapsThisWeek -> combos -> rows on the arrays  *)
(* of up to MaxLen entries that the startup fetch may answer with           *)

\* local midnight of the Sunday that starts week k
SundayOf(k) == UTC(k * DaysPerWeek * MsPerDay)

\* the instants of the mount: midweek; the last millisecond of a week; a
\* Sunday midnight; the hour the clocks repeat; the last millisecond of the
\* week of 169 hours
PipeInstants ==
  {StartInstant, SundayOf(1) - 1, SundayOf(1), FallBack + 30 * MsPerMinute,
   SundayOf(2) - 1}

\* the entries of the array, for the week w of the mount
PipeRecords(w) ==
  LET mid == w.start + 2 * MsPerDay + 9 * MsPerHour
  IN { LapAX("Ann", <<"5", "8", ".", "5">>, w.start),
       LapAX("Bob", <<"5", "8", ".", "5">>, mid),
       LapAX("Cat", <<"5", "7">>, w.endExclusive - 1),
       LapBY("Dan", <<"6", "1">>, mid + MsPerHour),
       LapBY("Eve", <<"6", "0", ".", "2", "5">>, w.endExclusive),
       LapAX("Fay", <<"5", "9">>, mid - DaysPerWeek * MsPerDay),
       rawRecord(Str("Gus"), Str(<<"5", "7">>), UndefinedName, Str("TrackX"),
                 toISOString(mid)),
       rawRecord(Str("Hal"), Str(<<"5", "7">>), Str("CarA"), Str(""),
                 toISOString(mid)),
       LapAX("Ida", <<"x", "5", "9">>, mid),
       rawRecord(Str("Jon"), Str(<<"5", "7">>), Str("CarA"), Str("TrackX"),
                 Str(<<"soon">>)),
       rawRecord(UndefinedName, Str(<<"5", "6">>), Str("CarA"), Str("TrackX"),
                 toISOString(mid)),
       Null }

PipeFeeds(w) == UNION {[1..n -> PipeRecords(w)] : n \in 0..MaxLen}

\* the state after the mount at one of PipeInstants
PipeInit ==
  /\ now \in PipeInstants
  /\ week = weekBounds(now)
  /\ raw = <<>>
  /\ loading = TRUE
  /\ error = ""
  /\ selectedKey = ""
  /\ lastFetchedAt = NoDate
  /\ usedDemo = FALSE
  /\ proxyUrl = "/api/laps"
  /\ mounted = TRUE
  /\ gen = 1
  /\ timeoutId = [g \in 1..MaxGen |-> IF g = 1 THEN 1 ELSE 0]
  /\ timers = {[id |-> 1, gen |-> 1]}
  /\ nextTimer = 2
  /\ inflight = {cycle(1, startupAllowDemoFallback, "startup", 1)}
  /\ nextCycle = 2
  /\ rawCycle = 0
  /\ last = otherStep
  /\ phase = "idle"
  /\ delay = 0
  /\ armedAt = 0

PipeNext ==
  \/ \E c \in inflight : \E json \in PipeFeeds(week) : FetchOk(c, json)
  \/ \E c \in inflight : \E message \in FailureMessages : FetchFail(c, message)
  \/ \E key \in comboKeys(currentCombos) : SelectCombo(key)

PipeSpec == PipeInit /\ [][PipeNext]_vars

\* the same pipeline on laps whose names hold the text "@@" of the key of
\* line 223
KeyRecords(w) ==
  LET mid == w.start + 2 * MsPerDay + 9 * MsPerHour
  IN { rawRecord(Str("Ann"), Str(<<"5", "8">>), Str(car), Str(track), toISOString(mid)) :
         car \in {"A", "A@@B"}, track \in {"C", "B@@C"} }

KeyFeeds(w) == UNION {[1..n -> KeyRecords(w)] : n \in 0..MaxLen}

KeyNext ==
  \/ \E c \in inflight : \E json \in KeyFeeds(week) : FetchOk(c, json)
  \/ \E key \in comboKeys(currentCombos) : SelectCombo(key)

KeySpec == PipeInit /\ [][KeyNext]_vars

----------------------------------------------------------------------------
(* The scheduler of lines 121-148 against the wall clock *)

\* lines 125-136, with t the instant new Date() returns
msUntilNext10(t) ==
  LET mod == getMinutes(t) % 10
      add == IF mod = 0 /\ getSeconds(t) = 0 /\ getMilliseconds(t) = 0
             THEN 10
             ELSE 10 - mod
      next == setMinutes(setSecondsZero(t), getMinutes(t) + add)
  IN next - t

\* the instants the timed model looks at: the minutes around FallBack, each
\* at its start, just after its start and at its end
TimedOrigin == FallBack - 65 * MsPerMinute
TimedInstants ==
  {TimedOrigin + m * MsPerMinute + sec * MsPerSecond + ms :
     m \in 0..MaxMinute, sec \in {0, 59}, ms \in {0, 1, 999}}

TimedInit ==
  /\ InitComponent
  /\ now \in TimedInstants
  /\ phase = "idle"
  /\ delay = 0
  /\ armedAt = 0

\* lines 139-143: schedule() at the instant now
arm(t) ==
  /\ delay' = msUntilNext10(t)
  /\ armedAt' = t
  /\ phase' = "waiting"

\* line 148: schedule() when the effect runs
TimedStart ==
  /\ phase = "idle"
  /\ arm(now)
  /\ last' = otherStep
  /\ UNCHANGED <<uiVars, week, proxyUrl, mounted, now, gen, timeoutId, timers,
                 nextTimer, inflight, nextCycle, rawCycle>>

\* line 140: the timer fires, at the instant it was set for or later (at
\* once when the delay is not positive)
TimedFire(t) ==
  /\ phase = "waiting"
  /\ t >= now
  /\ t >= armedAt + delay
  /\ now' = t
  /\ phase' = "fetching"
  /\ delay' = 0
  /\ armedAt' = 0
  /\ last' = otherStep
  /\ UNCHANGED <<uiVars, week, proxyUrl, mounted, gen, timeoutId, timers,
                 nextTimer, inflight, nextCycle, rawCycle>>

\* lines 141-142: fetchData settles some time later, then schedule()
TimedFetchDone(t) ==
  /\ phase = "fetching"
  /\ t >= now
  /\ now' = t
  /\ arm(t)
  /\ last' = otherStep
  /\ UNCHANGED <<uiVars, week, proxyUrl, mounted, gen, timeoutId, timers,
                 nextTimer, inflight, nextCycle, rawCycle>>

TimedNext ==
  \/ TimedStart
  \/ \E t \in TimedInstants : TimedFire(t)
  \/ \E t \in TimedInstants : TimedFetchDone(t)

TimedSpec == TimedInit /\ [][TimedNext]_vars

----------------------------------------------------------------------------
(* Properties *)

\* the combos after the step
combosAfter == memoCombos(raw', week')
landed(c) == c \in inflight /\ c \notin inflight' /\ last'.op = "land"
stopped(g) == g < gen \/ ~mounted

\* C1: when the result of a refresh has combos but not the selected key, the
\* selection becomes the first combo of the new result.
C1_FallsBackToTop ==
  [][(/\ last'.op = "land"
      /\ last'.wrote
      /\ Len(combosAfter) # 0
      /\ selectedKey \notin comboKeys(combosAfter))
     => selectedKey' = topKey(combosAfter)]_vars

\* C2: a refresh whose result still holds the selected key leaves the
\* selection as it is, whatever the order of the combos has become.
C2_SelectionPersists ==
  [][(last'.op = "land" /\ selectedKey' # selectedKey)
     => selectedKey \notin comboKeys(combosAfter)]_vars

\* a refresh has just replaced the data, the combo that was first before it
\* is selected and still there, and another combo is first now
C2_Witness ==
  /\ last.op = "land"
  /\ last.wrote
  /\ selectedKey # ""
  /\ selectedKey = last.top
  /\ selectedKey \in comboKeys(currentCombos)
  /\ topKey(currentCombos) # selectedKey

\* C3: once the cleanup of a run of the effect has run, none of its timers
\* is pending and none of its scheduled runs starts.
C3_NoRunAfterStop ==
  \A g \in 1..MaxGen :
    stopped(g) =>
      /\ ~\E t \in timers : t.gen = g
      /\ ~\E c \in inflight : c.kind = "scheduled" /\ c.gen = g /\ ~c.torn

\* C4: at most one timer is pending.
C4_OneTimer == Cardinality(timers) <= 1

\* C5: a fetchData call that was in flight at teardown changes neither raw,
\* error, usedDemo nor lastFetchedAt when it settles.
C5_TornResultDiscarded ==
  [][\A c \in inflight :
       (landed(c) /\ c.torn) => UNCHANGED <<raw, error, usedDemo, lastFetchedAt>>]_vars

\* C6: while the records of a successful fetch are displayed, no step
\* replaces them with the demo records.
C6_DemoNeverOverLive ==
  [][(rawCycle # 0 /\ ~isDemo(raw)) => ~isDemo(raw')]_vars

C8_DemoIsFlagged == isDemo(raw) => usedDemo

\* C9: the result of a cycle is never applied over the result of a cycle
\* that started after it.
C9_NoOlderOverNewer == [][rawCycle' >= rawCycle]_vars

onMark(t) == getMinutes(t) % 10 = 0 /\ getSeconds(t) = 0 /\ getMilliseconds(t) = 0

\* C10: the delay schedule() computes is positive and at most 10 minutes, and
\* leads to the first 10-minute mark after the instant it was computed at,
\* each time schedule() runs.
C10_DelayToNextMark ==
  phase = "waiting" =>
    /\ delay > 0
    /\ delay <= 10 * MsPerMinute
    /\ onMark(armedAt + delay)
    /\ \A t \in TimedInstants : (armedAt < t /\ t < armedAt + delay) => ~onMark(t)

\* C11: a cycle called without allowDemoFallback (Refresh, Try again, the
\* scheduled run) whose request fails leaves raw, lastFetchedAt and the
\* selection as they are and ends with loading false and a non-empty error.
C11_FailureKeepsData ==
  [][\A c \in inflight :
       (landed(c) /\ ~last'.ok /\ ~c.allowDemoFallback /\ mounted)
         => /\ UNCHANGED <<raw, lastFetchedAt, selectedKey>>
            /\ error' # ""
            /\ ~loading']_vars

\* a Refresh or scheduled cycle has just failed with an empty e.message while
\* records of the feed are displayed
C11_Witness ==
  /\ last.op = "land"
  /\ ~last.ok
  /\ last.kind \in {"scheduled", "refresh"}
  /\ mounted
  /\ error = "Failed to load data"
  /\ raw \in Feeds
  /\ ~loading

\* C12: after a cycle has replaced the data, the week the laps are filtered
\* by is the week that holds the current instant.
C12_WindowOfNow ==
  (last.op = "land" /\ last.wrote)
    => (week.start <= now /\ now < week.endExclusive)

isSundayMidnight(t) == getDay(t) = 0 /\ LocalTime(t) % MsPerDay = 0

\* C13: weekBounds gives the same window each time it is called for an
\* instant, start is a local midnight on a Sunday, end is 7 times 24 hours
\* after start, start <= t < end, and a Sunday local midnight starts its
\* own window.
C13_WeekOfSevenDays ==
  LET w == weekBounds(now)
  IN /\ w = week
     /\ isSundayMidnight(w.start)
     /\ w.endExclusive = w.start + DaysPerWeek * MsPerDay
     /\ w.start <= now /\ now < w.endExclusive
     /\ isSundayMidnight(now) => w.start = now

\* C13, amended: as above, but end is the local midnight of the Sunday 7
\* calendar days after start, whatever the number of hours in between.
C13_WeekSundayToSunday ==
  LET w == weekBounds(now)
  IN /\ w = week
     /\ isSundayMidnight(w.start)
     /\ isSundayMidnight(w.endExclusive)
     /\ LocalTime(w.endExclusive) - LocalTime(w.start) = DaysPerWeek * MsPerDay
     /\ w.start <= now /\ now < w.endExclusive
     /\ isSundayMidnight(now) => w.start = now

\* the component was mounted at the Sunday midnight that starts the week in
\* which the clocks go back, and its startup cycle has landed
C13_Witness ==
  /\ isSundayMidnight(now)
  /\ week.start = now
  /\ week.endExclusive - week.start = DaysPerWeek * MsPerDay + MsPerHour
  /\ last.op = "land"

\* C14: every lap of every combo has week.start <= startTime <
\* week.endExclusive, and no two combos have the same carName and trackName.
C14_CombosInWindowDistinct ==
  LET cs == currentCombos
  IN /\ \A i \in 1..Len(cs) : \A j \in 1..Len(cs[i].laps) :
          /\ week.start <= cs[i].laps[j].startTime.v
          /\ cs[i].laps[j].startTime.v < week.endExclusive
     /\ \A i, j \in 1..Len(cs) :
          i # j => <<cs[i].carName, cs[i].trackName>> # <<cs[j].carName, cs[j].trackName>>

\* the array that landed has laps of two combos in the week and an admitted
\* lap outside the week
C14_Witness ==
  /\ last.op = "land"
  /\ last.wrote
  /\ Len(currentCombos) >= 2
  /\ Len(lapsThisWeek(laps(raw), week)) < Len(laps(raw))

latest(c) == maxStart(c.laps, Len(c.laps))
ordered(cs) ==
  \A i, j \in 1..Len(cs) :
    i < j => \/ Len(cs[i].laps) > Len(cs[j].laps)
             \/ Len(cs[i].laps) = Len(cs[j].laps) /\ latest(cs[i]) >= latest(cs[j])

\* C15: the combos are in descending order of their number of laps, combos
\* with as many laps in descending order of their latest startTime, and when
\* nothing is selected the first combo of this order becomes the selection.
C15_OrderedTopSelected ==
  [][/\ ordered(combosAfter)
     /\ (selectedKey = "" /\ mounted' /\ Len(combosAfter) # 0)
          => selectedKey' = combosAfter[1].key]_vars

\* two combos with as many laps each: the one whose lap came first in the
\* array is second, the other one is first and was selected by the landing
C15_Witness ==
  LET cs == currentCombos
  IN /\ last.op = "land"
     /\ last.top = ""
     /\ Len(cs) = 2
     /\ Len(cs[1].laps) = Len(cs[2].laps)
     /\ latest(cs[1]) > latest(cs[2])
     /\ cs[2].laps[1] = laps(raw)[1]
     /\ selectedKey = cs[1].key

\* rs are the laps ls in non-decreasing lapTime order, laps as fast in the
\* order of ls, with positions from 1 and deltas to the first row
ranked(ls, rs) ==
  /\ Len(rs) = Len(ls)
  /\ \E p \in Permutations(1..Len(ls)) :
       /\ \A i \in 1..Len(rs) : rs[i].lap = ls[p[i]]
       /\ \A i, j \in 1..Len(rs) :
            i < j => \/ rs[i].lap.lapTime.v < rs[j].lap.lapTime.v
                     \/ rs[i].lap.lapTime.v = rs[j].lap.lapTime.v /\ p[i] < p[j]
  /\ \A i \in 1..Len(rs) :
       /\ rs[i].pos = i
       /\ rs[i].delta = rs[i].lap.lapTime.v - rs[1].lap.lapTime.v
       /\ rs[i].delta >= 0
  /\ Len(rs) > 0 => rs[1].delta = 0

\* C16: the rows of every combo are its laps in non-decreasing lapTime
\* order, laps of equal time in input order, row i at position i, each delta
\* the lapTime minus the lapTime of position 1; no laps give no rows, and
\* the rows shown are those of the selected combo.
C16_RowsRanked ==
  LET cs == currentCombos
      shown == rows
  IN /\ \A i \in 1..Len(cs) : ranked(cs[i].laps, rowsOf(cs[i].laps))
     /\ rowsOf(<<>>) = <<>>
     /\ \A i \in 1..Len(cs) : cs[i].key = selectedKey => shown = rowsOf(cs[i].laps)
     /\ (\A i \in 1..Len(cs) : cs[i].key # selectedKey) => shown = <<>>

\* the selected combo has three laps: the fastest came last in the array,
\* the other two are as fast as each other
C16_Witness ==
  /\ Len(rows) = 3
  /\ rows[2].delta > 0
  /\ rows[2].delta = rows[3].delta
  /\ rows[2].lap # rows[3].lap
  /\ \A c \in selectedCombo : rows[1].lap = c.laps[3]

\* the raw record r has a lapTime that parses to a finite number, a
\* non-empty carName and trackName and a startTime that parses
admissible(r) ==
  /\ parseFloat(r.lapTime).fin
  /\ r.carName.t = "string" /\ r.carName.s # ""
  /\ r.trackName.t = "string" /\ r.trackName.s # ""
  /\ parseDate(r.startTime).fin

\* C17: laps is a subsequence of raw in the order of raw (its k-th lap is
\* the k-th admissible record of raw), a record is in it exactly when it is
\* admissible, and no lap of a combo has an empty carName.
C17_NormalizerFilters ==
  LET ls == laps(raw)
      cs == currentCombos
      f == SelectSeq([i \in 1..Len(raw) |-> i], LAMBDA i : admissible(raw[i]))
  IN /\ Len(ls) <= Len(raw)
     /\ Len(ls) = Len(f)
     /\ \A k \in 1..Len(ls) : ls[k] = normalizeOne(raw[f[k]])
     /\ \A k, m \in 1..Len(f) : k < m => f[k] < f[m]
     /\ \A i \in 1..Len(cs) : \A j \in 1..Len(cs[i].laps) : cs[i].laps[j].carName # ""

\* the array that landed has a record without carName between two records
\* that are admitted and form the combos
C17_Witness ==
  /\ last.op = "land"
  /\ Len(raw) = 3
  /\ raw[2].carName = UndefinedName
  /\ parseFloat(raw[2].lapTime).fin /\ parseDate(raw[2].startTime).fin
  /\ Len(laps(raw)) = 2
  /\ laps(raw)[1] = normalizeOne(raw[1])
  /\ laps(raw)[2] = normalizeOne(raw[3])
  /\ Len(currentCombos) >= 1

\* C18: the landing of a request that answered with an array never makes
\* the normalizer throw: the component stays mounted and shows the array.
C18_NormalizerNeverThrows ==
  [][\A c \in inflight :
       (landed(c) /\ last'.ok /\ mounted) => (mounted' /\ rawCycle' = c.id)]_vars

\* C19: every lap the normalizer admits, and so every lap of a combo and of
\* the rows, has a non-empty fullName.
C19_DriverNamed ==
  LET ls == laps(raw)
      cs == currentCombos
      shown == rows
  IN /\ \A i \in 1..Len(ls) : ls[i].fullName # ""
     /\ \A i \in 1..Len(cs) : \A j \in 1..Len(cs[i].laps) : cs[i].laps[j].fullName # ""
     /\ \A i \in 1..Len(shown) : shown[i].lap.fullName # ""

scheduledRunning(g) == \E c \in inflight : c.kind = "scheduled" /\ c.gen = g
waiting(g) == \E t \in timers : t.gen = g

\* C20: the landing of a scheduled run, successful or failed, leaves a timer
\* of its run of the effect pending; a scheduled run in flight leads to such
\* a timer unless the effect is stopped, and a pending timer of a run of the
\* effect that is not stopped leads to a scheduled run (as long as the model
\* has fetchData calls left).
C20_ScheduleGoesOn ==
  /\ [][\A c \in inflight :
          (landed(c) /\ c.kind = "scheduled") => \E t \in timers' : t.gen = c.gen]_vars
  /\ \A g \in 1..MaxGen :
       /\ scheduledRunning(g) ~> (stopped(g) \/ waiting(g))
       /\ (waiting(g) /\ ~stopped(g))
            ~> (stopped(g) \/ scheduledRunning(g) \/ nextCycle > MaxCycles)

\* a scheduled run has just failed and the timer of the next one is pending
C20_Witness ==
  /\ last.op = "land"
  /\ last.kind = "scheduled"
  /\ ~last.ok
  /\ mounted
  /\ ~scheduledRunning(gen)
  /\ waiting(gen)

\* C21: while a fetchData call is in flight on the mounted component,
\* loading is true.
C21_LoadingWhileInFlight == (mounted /\ inflight # {}) => loading

\* C22: every lap of a combo has the carName and the trackName of the combo.
C22_ComboHoldsItsPair ==
  LET cs == currentCombos
  IN \A i \in 1..Len(cs) : \A j \in 1..Len(cs[i].laps) :
       /\ cs[i].laps[j].carName = cs[i].carName
       /\ cs[i].laps[j].trackName = cs[i].trackName

====
